---- MODULE Spec2Model ----
(***************************************************************************)
(* Draft State Store of the draft tracker: the /api/draft-sync/[leagueId]  *)
(* route (POST = initialize, PUT = addPick, GET = getState, DELETE =       *)
(* reset) over the file-backed cache .draft-cache/<leagueId>.json.         *)
(*                                                                         *)
(* JSON objects are records; a field that is absent from the JSON (or      *)
(* undefined in JavaScript) is absent from the record's DOMAIN.  The       *)
(* syncedAt timestamp is not modelled: no handler reads it.                *)
(***************************************************************************)
EXTENDS Integers, Sequences, FiniteSets, TLC

VARIABLES
    cache,   \* the files of CACHE_DIR: leagueId -> parsed JSON content
    req,     \* the request handled last (method and JSON body)
    resp,    \* the response returned to it
    pc,      \* concurrent requests: position of each client's handler
    creq,    \* concurrent requests: request of each client
    local,   \* concurrent requests: the handler's existingData / cacheData
    cresp,   \* concurrent requests: response of each client
    base,    \* the cache when the two concurrent requests were issued
    draftData,       \* merge script: the players of draft-data.json
    yahooData,       \* merge script: the players of yahoo-draft-data.json
    mergedData,      \* merge script: the content of merged-draft-data.json
    addPick,         \* tracker page: position of handleAddPick
    recsInFlight,    \* tracker page: recommendation requests not yet answered
    recommendations, \* tracker page: the recommendations state
    reported,        \* tracker page: failures logged by fetchRecommendations
    trackerData,     \* tracker page: the draftData state of each open page
    availablePlayers, \* tracker page: the players the page offers
    topAvailable,    \* recommendations route: the candidate pool
    numTeams,        \* TeamSetup: the chosen number of teams
    setupNames,      \* TeamSetup: the teamNames state, the names typed so far
    myTeamIndex,     \* TeamSetup: the index of the user's team, from 0
    step,            \* TeamSetup: the wizard step shown
    nameIn,          \* a name given to normalizeName
    nameKey          \* what normalizeName returned, applied once and twice

vars == <<cache, req, resp, pc, creq, local, cresp, base,
          draftData, yahooData, mergedData,
          addPick, recsInFlight, recommendations, reported,
          trackerData, availablePlayers, topAvailable,
          numTeams, setupNames, myTeamIndex, step, nameIn, nameKey>>

seqVars == <<cache, req, resp>>
concVars == <<pc, creq, local, cresp, base>>
mergeVars == <<draftData, yahooData, mergedData>>
clientVars == <<addPick, recsInFlight, recommendations, reported>>
pageVars == <<trackerData, availablePlayers, topAvailable>>
wizardVars == <<numTeams, setupNames, myTeamIndex, step>>
nameVars == <<nameIn, nameKey>>

(***************************************************************************)
(* Bounds and input sets                                                   *)
(***************************************************************************)
MaxPicks == 2
MaxTeams == 2

LeagueId == "L1"
PlayerNames == {"P1"}
BidAmounts == {-5, 35}
\* "Z" is never the name of a configured team
DraftedBy == {"A", "B", "Z"}

\* teams as a client posts them: name, budget and isMyTeam as TeamSetup
\* sends them; the route also accepts teams without budget or isMyTeam
TeamInputs ==
    { [name |-> "A", budget |-> 150, isMyTeam |-> TRUE],
      [name |-> "B"],
      [name |-> "B", budget |-> 0, isMyTeam |-> FALSE] }

RECURSIVE SeqsUpTo(_, _)
SeqsUpTo(S, n) ==
    IF n = 0 THEN {<<>>}
    ELSE LET shorter == SeqsUpTo(S, n - 1)
         IN  shorter \cup {Append(s, x) : s \in {t \in shorter : Len(t) = n - 1}, x \in S}

TeamLists == SeqsUpTo(TeamInputs, MaxTeams)

\* bodies of POST: the scrapers post {picks, teams: []}, TeamSetup posts
\* {teams}, and a body without teams is answered 400
PostBodies == {[teams |-> t] : t \in TeamLists} \cup {[picks |-> <<>>]}

\* bodies of PUT: every combination of present and absent fields
PutBodies ==
    LET full == [playerName : PlayerNames, bidAmount : BidAmounts,
                 isMyPick : BOOLEAN, draftedByTeam : DraftedBy]
        noTeam == [playerName : PlayerNames, bidAmount : BidAmounts,
                   isMyPick : BOOLEAN]
        noBid == [playerName : {"P1"}, isMyPick : {FALSE}, draftedByTeam : {"A"}]
        noName == [bidAmount : {35}, isMyPick : {FALSE}, draftedByTeam : {"A"}]
        emptyName == [playerName : {""}, bidAmount : {35}, isMyPick : {FALSE},
                      draftedByTeam : {"A"}]
    IN  full \cup noTeam \cup noBid \cup noName \cup emptyName

(***************************************************************************)
(* JavaScript helpers                                                      *)
(***************************************************************************)
Has(r, f) == f \in DOMAIN r

\* loadFromCache returns null when the file does not exist
Null == [isNull |-> TRUE]

getCachePath(files, leagueId) == leagueId \in DOMAIN files

loadFromCache(files, leagueId) ==
    IF getCachePath(files, leagueId) THEN files[leagueId] ELSE Null

saveToCache(files, leagueId, data) ==
    [k \in (DOMAIN files) \cup {leagueId} |->
        IF k = leagueId THEN data ELSE files[k]]

unlinkSync(files, leagueId) ==
    [k \in (DOMAIN files) \ {leagueId} |-> files[k]]

(***************************************************************************)
(* POST: initialize teams for the draft                                    *)
(***************************************************************************)
\* team.budget || 200 : an absent budget and the budget 0 are both falsy
budgetOrDefault(team) ==
    IF Has(team, "budget") /\ team.budget # 0 THEN team.budget ELSE 200

mapTeam(team) ==
    [name |-> team.name,
     budget |-> budgetOrDefault(team),
     isMyTeam |-> (Has(team, "isMyTeam") /\ team.isMyTeam)]

initialCacheData(teams) ==
    [picks |-> <<>>,
     teams |-> [i \in 1..Len(teams) |-> mapTeam(teams[i])],
     totalPicks |-> 130,
     isComplete |-> FALSE,
     myTeamBudget |-> 200]

\* !teams || !Array.isArray(teams)
postRejects(body) == ~Has(body, "teams")

postResponse(body) ==
    IF postRejects(body)
    THEN [status |-> 400, error |-> "teams array is required"]
    ELSE [status |-> 200, success |-> TRUE,
          teams |-> initialCacheData(body.teams).teams]

postFiles(files, leagueId, body) ==
    IF postRejects(body) THEN files
    ELSE saveToCache(files, leagueId, initialCacheData(body.teams))

(***************************************************************************)
(* PUT: add a single pick                                                  *)
(***************************************************************************)
\* !playerName || bidAmount === undefined
putRejects(body) ==
    \/ ~Has(body, "playerName")
    \/ body.playerName = ""
    \/ ~Has(body, "bidAmount")

defaultData ==
    [picks |-> <<>>, teams |-> <<>>, totalPicks |-> 130,
     isComplete |-> FALSE, myTeamBudget |-> 200]

\* loaded || { picks: [], teams: [], ... }
orDefault(loaded) == IF loaded = Null THEN defaultData ELSE loaded

loadOrDefault(files, leagueId) == orDefault(loadFromCache(files, leagueId))

\* draftedByTeam && ... : an absent and an empty team name are falsy
truthyTeam(body) == Has(body, "draftedByTeam") /\ body.draftedByTeam # ""

\* teams.findIndex(t => t.name === draftedByTeam), 0 standing for -1
findIndex(teams, name) ==
    IF \E i \in 1..Len(teams) : teams[i].name = name
    THEN CHOOSE i \in 1..Len(teams) :
            /\ teams[i].name = name
            /\ \A j \in 1..(i - 1) : teams[j].name # name
    ELSE 0

\* the bid charged to every team instead of the team found
deductBudget_everyTeam(teams, teamIndex, bidAmount) ==
    [i \in DOMAIN teams |-> [teams[i] EXCEPT !.budget = @ - bidAmount]]

\* existingData.teams[teamIndex].budget -= bidAmount
deductBudget(teams, teamIndex, bidAmount) ==
    [teams EXCEPT ![teamIndex].budget = @ - bidAmount]

teamsAfterPick(data, body) ==
    IF truthyTeam(body) /\ Len(data.teams) > 0
       /\ findIndex(data.teams, body.draftedByTeam) # 0
    THEN deductBudget(data.teams, findIndex(data.teams, body.draftedByTeam),
                      body.bidAmount)
    ELSE data.teams

myTeamBudgetAfterPick(data, body) ==
    IF truthyTeam(body) /\ Len(data.teams) > 0
    THEN IF /\ findIndex(data.teams, body.draftedByTeam) # 0
            /\ data.teams[findIndex(data.teams, body.draftedByTeam)].isMyTeam
         THEN data.myTeamBudget - body.bidAmount
         ELSE data.myTeamBudget
    ELSE IF body.isMyPick
         THEN data.myTeamBudget - body.bidAmount
         ELSE data.myTeamBudget

\* a zero-based numbering: the length before the push
newPickNumber_zeroBased(data) == Len(data.picks)

\* existingData.picks.length + 1
newPickNumber(data) == Len(data.picks) + 1

\* draftedByTeam: draftedByTeam || (isMyPick ? 'My Team' : undefined)
newPick(data, body) ==
    LET common == [playerName |-> body.playerName,
                   teamName |-> IF body.isMyPick THEN "My Team" ELSE "Manual",
                   pickNumber |-> newPickNumber(data),
                   bidAmount |-> body.bidAmount,
                   isMyPick |-> body.isMyPick]
        withTeam(t) == [f \in (DOMAIN common) \cup {"draftedByTeam"} |->
                           IF f = "draftedByTeam" THEN t ELSE common[f]]
    IN  IF truthyTeam(body) THEN withTeam(body.draftedByTeam)
        ELSE IF body.isMyPick THEN withTeam("My Team")
        ELSE common

\* unshift in place of push: the new pick goes first
push_unshift(picks, pick) == <<pick>> \o picks

\* existingData.picks.push(newPick)
push(picks, pick) == Append(picks, pick)

dataAfterPick(data, body) ==
    [data EXCEPT !.teams = teamsAfterPick(data, body),
                 !.myTeamBudget = myTeamBudgetAfterPick(data, body),
                 !.picks = push(data.picks, newPick(data, body))]

putResponse(data, body) ==
    IF putRejects(body)
    THEN [status |-> 400, error |-> "playerName and bidAmount are required"]
    ELSE [status |-> 200, success |-> TRUE,
          pick |-> newPick(data, body),
          totalPicks |-> Len(dataAfterPick(data, body).picks),
          myTeamBudget |-> dataAfterPick(data, body).myTeamBudget]

putFiles(files, leagueId, data, body) ==
    IF putRejects(body) THEN files
    ELSE saveToCache(files, leagueId, dataAfterPick(data, body))

(***************************************************************************)
(* GET: the state of the draft                                             *)
(***************************************************************************)
\* a 404 in place of the default session
defaultResponse_notFound == [status |-> 404, error |-> "Draft not found"]

defaultResponse ==
    [status |-> 200, picks |-> <<>>, teams |-> <<>>, currentPick |-> 1,
     totalPicks |-> 130, isComplete |-> FALSE, synced |-> FALSE,
     myTeamBudget |-> 200]

\* pick.pickNumber || index + 1, with index + 1 = i
reportedPickNumber(pick, i) ==
    IF Has(pick, "pickNumber") /\ pick.pickNumber # 0 THEN pick.pickNumber ELSE i

transformPick(pick, i) ==
    LET common == [playerId |-> i,
                   playerName |-> pick.playerName,
                   teamId |-> 0,
                   pickNumber |-> reportedPickNumber(pick, i),
                   round |-> ((i - 1) \div 10) + 1,
                   bidAmount |-> IF Has(pick, "bidAmount") THEN pick.bidAmount ELSE 0,
                   isMyPick |-> (Has(pick, "isMyPick") /\ pick.isMyPick)]
    IN  IF Has(pick, "draftedByTeam")
        THEN [f \in (DOMAIN common) \cup {"draftedByTeam"} |->
                 IF f = "draftedByTeam" THEN pick.draftedByTeam ELSE common[f]]
        ELSE common

transformedPicks(data) ==
    [i \in 1..Len(data.picks) |-> transformPick(data.picks[i], i)]

getResponseFor(cachedData) ==
    IF cachedData = Null THEN defaultResponse
    ELSE [status |-> 200,
          picks |-> transformedPicks(cachedData),
          teams |-> cachedData.teams,
          currentPick |-> Len(cachedData.picks) + 1,
          totalPicks |-> cachedData.totalPicks,
          isComplete |-> cachedData.isComplete,
          synced |-> TRUE,
          myTeamBudget |-> cachedData.myTeamBudget,
          teamsConfigured |-> (Len(cachedData.teams) > 0)]

getResponse(files, leagueId) == getResponseFor(loadFromCache(files, leagueId))

(***************************************************************************)
(* DELETE: reset the draft                                                 *)
(***************************************************************************)
deleteFiles_picksOnly(files, leagueId) ==
    IF getCachePath(files, leagueId)
    THEN [files EXCEPT ![leagueId] = [@ EXCEPT !.picks = <<>>]]
    ELSE files

deleteFiles(files, leagueId) ==
    IF getCachePath(files, leagueId) THEN unlinkSync(files, leagueId) ELSE files

deleteResponse == [status |-> 200, success |-> TRUE]

(***************************************************************************)
(* Sequential requests: one handler runs to completion per step            *)
(***************************************************************************)
NoRequest == [method |-> "NONE"]
NoResponse == [status |-> 0]

Init ==
    /\ cache = <<>>
    /\ req = NoRequest
    /\ resp = NoResponse
    /\ pc = [c \in {1, 2} |-> "idle"]
    /\ creq = [c \in {1, 2} |-> NoRequest]
    /\ local = [c \in {1, 2} |-> Null]
    /\ cresp = [c \in {1, 2} |-> NoResponse]
    /\ base = <<>>
    /\ draftData = <<>>
    /\ yahooData = <<>>
    /\ mergedData = <<>>
    /\ addPick = "idle"
    /\ recsInFlight = 0
    /\ recommendations = <<>>
    /\ reported = 0
    /\ trackerData = [c \in {1, 2} |-> Null]
    /\ availablePlayers = <<>>
    /\ topAvailable = <<>>
    /\ numTeams = 10
    /\ setupNames = <<>>
    /\ myTeamIndex = 0
    /\ step = "count"
    /\ nameIn = <<>>
    /\ nameKey = <<>>

picksStored(files) ==
    IF getCachePath(files, LeagueId) THEN Len(files[LeagueId].picks) ELSE 0

POST(body) ==
    /\ req' = [method |-> "POST", body |-> body]
    /\ resp' = postResponse(body)
    /\ cache' = postFiles(cache, LeagueId, body)
    /\ UNCHANGED <<concVars, mergeVars, clientVars>>
    /\ UNCHANGED <<pageVars, wizardVars, nameVars>>

PutHandler(body) ==
    /\ req' = [method |-> "PUT", body |-> body]
    /\ resp' = putResponse(loadOrDefault(cache, LeagueId), body)
    /\ cache' = putFiles(cache, LeagueId, loadOrDefault(cache, LeagueId), body)
    /\ UNCHANGED <<concVars, mergeVars, clientVars>>
    /\ UNCHANGED <<pageVars, wizardVars, nameVars>>

PUT(body) ==
    /\ picksStored(cache) < MaxPicks
    /\ PutHandler(body)

GET ==
    /\ req' = [method |-> "GET"]
    /\ resp' = getResponse(cache, LeagueId)
    /\ cache' = cache
    /\ UNCHANGED <<concVars, mergeVars, clientVars>>
    /\ UNCHANGED <<pageVars, wizardVars, nameVars>>

DELETE ==
    /\ req' = [method |-> "DELETE"]
    /\ resp' = deleteResponse
    /\ cache' = deleteFiles(cache, LeagueId)
    /\ UNCHANGED <<concVars, mergeVars, clientVars>>
    /\ UNCHANGED <<pageVars, wizardVars, nameVars>>

Next ==
    \/ \E body \in PostBodies : POST(body)
    \/ \E body \in PutBodies : PUT(body)
    \/ GET
    \/ DELETE

Spec == Init /\ [][Next]_vars

(***************************************************************************)
(* A whole draft: one configured league and picks beyond the 130th.  The   *)
(* tracker page sends every pick of another team with isMyPick false       *)
(* (AddPickForm checks the bid against the budget of the user's team only).*)
(***************************************************************************)
MaxDraftPicks == 131
RosterSize == 13

DraftTeams ==
    <<[name |-> "A", budget |-> 200, isMyTeam |-> TRUE],
      [name |-> "B", budget |-> 200, isMyTeam |-> FALSE]>>

DraftPostBodies == {[teams |-> DraftTeams]}

DraftPutBodies ==
    {[playerName |-> "P1", bidAmount |-> 35, isMyPick |-> FALSE,
      draftedByTeam |-> "B"]}

DraftPUT(body) ==
    /\ picksStored(cache) < MaxDraftPicks
    /\ PutHandler(body)

NextDraft ==
    \/ \E body \in DraftPostBodies : POST(body)
    \/ \E body \in DraftPutBodies : DraftPUT(body)
    \/ GET

SpecDraft == Init /\ [][NextDraft]_vars

(***************************************************************************)
(* Concurrent requests.  The cache is a file that every server process of  *)
(* the deployment shares and that no handler locks, so the file-system     *)
(* calls of two requests served by different processes interleave.  Two    *)
(* clients issue one request each; each handler then advances one          *)
(* file-system call at a time (existsSync, readFileSync, writeFileSync,    *)
(* unlinkSync).  A single file-system call is atomic.                      *)
(***************************************************************************)
Clients == {1, 2}

ConcPutBodies ==
    { [playerName |-> "P1", bidAmount |-> 35, isMyPick |-> TRUE,
       draftedByTeam |-> "A"],
      [playerName |-> "P1", bidAmount |-> 35, isMyPick |-> FALSE] }

ConcPostBodies ==
    { [teams |-> << [name |-> "A", budget |-> 200, isMyTeam |-> TRUE],
                    [name |-> "B", budget |-> 200, isMyTeam |-> FALSE] >>],
      [picks |-> <<>>] }

ConcRequests ==
    {[method |-> "PUT", body |-> b] : b \in ConcPutBodies}
    \cup {[method |-> "POST", body |-> b] : b \in ConcPostBodies}
    \cup {[method |-> "GET"], [method |-> "DELETE"]}

serverError(message) == [status |-> 500, error |-> message]

acceptedPut(r) == r.method = "PUT" /\ ~putRejects(r.body)

Issue(r1, r2) ==
    /\ \A c \in Clients : pc[c] \in {"idle", "done"}
    /\ picksStored(cache) + Cardinality({r \in {r1, r2} : acceptedPut(r)})
          + (IF acceptedPut(r1) /\ r1 = r2 THEN 1 ELSE 0) <= MaxPicks
    /\ creq' = [c \in Clients |-> IF c = 1 THEN r1 ELSE r2]
    /\ pc' = [c \in Clients |-> "start"]
    /\ local' = [c \in Clients |-> Null]
    /\ cresp' = [c \in Clients |-> NoResponse]
    /\ base' = cache
    /\ UNCHANGED seqVars
    /\ UNCHANGED <<mergeVars, clientVars>>
    /\ UNCHANGED <<pageVars, wizardVars, nameVars>>

\* the 400 answers of POST and PUT
Reject(c) ==
    /\ pc[c] = "start"
    /\ \/ creq[c].method = "POST" /\ postRejects(creq[c].body)
       \/ creq[c].method = "PUT" /\ putRejects(creq[c].body)
    /\ cresp' = [cresp EXCEPT ![c] =
                    IF creq[c].method = "POST"
                    THEN postResponse(creq[c].body)
                    ELSE putResponse(Null, creq[c].body)]
    /\ pc' = [pc EXCEPT ![c] = "done"]
    /\ UNCHANGED <<cache, req, resp, creq, local, base>>
    /\ UNCHANGED <<mergeVars, clientVars>>
    /\ UNCHANGED <<pageVars, wizardVars, nameVars>>

\* POST builds cacheData from the body alone and writes it
PostSave(c) ==
    /\ pc[c] = "start"
    /\ creq[c].method = "POST"
    /\ ~postRejects(creq[c].body)
    /\ cache' = postFiles(cache, LeagueId, creq[c].body)
    /\ cresp' = [cresp EXCEPT ![c] = postResponse(creq[c].body)]
    /\ pc' = [pc EXCEPT ![c] = "done"]
    /\ UNCHANGED <<req, resp, creq, local, base>>
    /\ UNCHANGED <<mergeVars, clientVars>>
    /\ UNCHANGED <<pageVars, wizardVars, nameVars>>

\* fs.existsSync(cachePath) of loadFromCache and of DELETE
ExistsSync(c) ==
    /\ pc[c] = "start"
    /\ \/ creq[c].method \in {"GET", "DELETE"}
       \/ creq[c].method = "PUT" /\ ~putRejects(creq[c].body)
    /\ IF getCachePath(cache, LeagueId)
       THEN /\ pc' = [pc EXCEPT ![c] = "exists"]
            /\ UNCHANGED <<local, cresp>>
       ELSE CASE creq[c].method = "PUT" ->
                    /\ pc' = [pc EXCEPT ![c] = "loaded"]
                    /\ local' = [local EXCEPT ![c] = Null]
                    /\ UNCHANGED cresp
              [] creq[c].method = "GET" ->
                    /\ pc' = [pc EXCEPT ![c] = "done"]
                    /\ cresp' = [cresp EXCEPT ![c] = getResponseFor(Null)]
                    /\ UNCHANGED local
              [] creq[c].method = "DELETE" ->
                    /\ pc' = [pc EXCEPT ![c] = "done"]
                    /\ cresp' = [cresp EXCEPT ![c] = deleteResponse]
                    /\ UNCHANGED local
    /\ UNCHANGED <<cache, req, resp, creq, base>>
    /\ UNCHANGED <<mergeVars, clientVars>>
    /\ UNCHANGED <<pageVars, wizardVars, nameVars>>

\* fs.readFileSync(cachePath) of loadFromCache; it throws when the file
\* has been deleted since existsSync, and the handler answers 500
ReadFileSync(c) ==
    /\ pc[c] = "exists"
    /\ creq[c].method \in {"PUT", "GET"}
    /\ IF ~getCachePath(cache, LeagueId)
       THEN /\ pc' = [pc EXCEPT ![c] = "done"]
            /\ cresp' = [cresp EXCEPT ![c] =
                  serverError(IF creq[c].method = "PUT"
                              THEN "Failed to add pick"
                              ELSE "Failed to fetch draft data")]
            /\ UNCHANGED local
       ELSE IF creq[c].method = "PUT"
            THEN /\ pc' = [pc EXCEPT ![c] = "loaded"]
                 /\ local' = [local EXCEPT ![c] = cache[LeagueId]]
                 /\ UNCHANGED cresp
            ELSE /\ pc' = [pc EXCEPT ![c] = "done"]
                 /\ cresp' = [cresp EXCEPT ![c] = getResponseFor(cache[LeagueId])]
                 /\ UNCHANGED local
    /\ UNCHANGED <<cache, req, resp, creq, base>>
    /\ UNCHANGED <<mergeVars, clientVars>>
    /\ UNCHANGED <<pageVars, wizardVars, nameVars>>

\* PUT changes the data it loaded and writes it back
PutSave(c) ==
    /\ pc[c] = "loaded"
    /\ creq[c].method = "PUT"
    /\ cache' = putFiles(cache, LeagueId, orDefault(local[c]), creq[c].body)
    /\ cresp' = [cresp EXCEPT ![c] = putResponse(orDefault(local[c]), creq[c].body)]
    /\ pc' = [pc EXCEPT ![c] = "done"]
    /\ UNCHANGED <<req, resp, creq, local, base>>
    /\ UNCHANGED <<mergeVars, clientVars>>
    /\ UNCHANGED <<pageVars, wizardVars, nameVars>>

\* fs.unlinkSync(cachePath) of DELETE; it throws when the file has been
\* deleted since existsSync, and the handler answers 500
UnlinkSync(c) ==
    /\ pc[c] = "exists"
    /\ creq[c].method = "DELETE"
    /\ cache' = deleteFiles(cache, LeagueId)
    /\ cresp' = [cresp EXCEPT ![c] =
                    IF getCachePath(cache, LeagueId) THEN deleteResponse
                    ELSE serverError("Failed to reset draft")]
    /\ pc' = [pc EXCEPT ![c] = "done"]
    /\ UNCHANGED <<req, resp, creq, local, base>>
    /\ UNCHANGED <<mergeVars, clientVars>>
    /\ UNCHANGED <<pageVars, wizardVars, nameVars>>

NextConc ==
    \/ \E r1, r2 \in ConcRequests : Issue(r1, r2)
    \/ \E c \in Clients : Reject(c)
    \/ \E c \in Clients : PostSave(c)
    \/ \E c \in Clients : ExistsSync(c)
    \/ \E c \in Clients : ReadFileSync(c)
    \/ \E c \in Clients : PutSave(c)
    \/ \E c \in Clients : UnlinkSync(c)

SpecConc == Init /\ [][NextConc]_vars

\* the cache after request r has run alone, from start to end
serial(files, r) ==
    CASE r.method = "POST" -> postFiles(files, LeagueId, r.body)
      [] r.method = "PUT" ->
            putFiles(files, LeagueId, loadOrDefault(files, LeagueId), r.body)
      [] r.method = "DELETE" -> deleteFiles(files, LeagueId)
      [] OTHER -> files

(***************************************************************************)
(* Properties of the Draft State Store                                     *)
(***************************************************************************)
stored == cache[LeagueId]

isPut(r) == r.method = "PUT"

teamNames(teams) == {teams[i].name : i \in 1..Len(teams)}

\* C1: after any number of sequential successful addPick calls on a session
\* that started with zero picks, the stored picks carry pickNumber 1..N in
\* insertion order, and each call returns the number of the pick it stored.
C1_PickNumbersAreOneToN ==
    /\ getCachePath(cache, LeagueId) =>
          \A i \in 1..Len(stored.picks) : stored.picks[i].pickNumber = i
    /\ (isPut(req) /\ resp.status = 200) =>
          /\ resp.pick.pickNumber = Len(stored.picks)
          /\ resp.pick = stored.picks[Len(stored.picks)]

C1_Witness ==
    /\ isPut(req)
    /\ resp.status = 200
    /\ Len(stored.picks) = 2
    /\ stored.picks[1].pickNumber = 1
    /\ stored.picks[2].pickNumber = 2

\* C2: two concurrent addPick calls for one session never return the same
\* pickNumber to their two callers.
C2_ConcurrentPickNumbersDiffer ==
    (/\ \A c \in Clients : pc[c] = "done" /\ isPut(creq[c])
     /\ \A c \in Clients : cresp[c].status = 200)
    => cresp[1].pick.pickNumber # cresp[2].pick.pickNumber

\* C3: addPick whose draftedByTeam is not the name of a configured team is
\* rejected with an error and leaves the picks and the team budgets as they
\* were.
C3_UnknownTeamIsRejected ==
    [][(/\ isPut(req')
        /\ ~putRejects(req'.body)
        /\ truthyTeam(req'.body)
        /\ getCachePath(cache, LeagueId)
        /\ Len(stored.teams) > 0
        /\ req'.body.draftedByTeam \notin teamNames(stored.teams))
       => (resp'.status >= 400 /\ cache' = cache)]_vars

\* C4: a successful addPick with draftedByTeam = T and bidAmount = b lowers
\* the stored budget of the configured team T by exactly b and leaves every
\* other team as it was.
C4_BidLowersOnlyThatTeamsBudget ==
    [][(/\ isPut(req')
        /\ resp'.status = 200
        /\ truthyTeam(req'.body)
        /\ req'.body.draftedByTeam
              \in teamNames(loadOrDefault(cache, LeagueId).teams))
       => LET before == stored.teams
              after == cache'[LeagueId].teams
              t == findIndex(before, req'.body.draftedByTeam)
          IN  /\ Len(after) = Len(before)
              /\ after[t].name = req'.body.draftedByTeam
              /\ after[t].budget = before[t].budget - req'.body.bidAmount
              /\ after[t].isMyTeam = before[t].isMyTeam
              /\ \A j \in 1..Len(before) : j # t => after[j] = before[j]]_vars

\* budget 200 and bid 35 give 165, next to a second team left at its budget
C4_Witness ==
    /\ isPut(req)
    /\ resp.status = 200
    /\ req.body.bidAmount = 35
    /\ Len(stored.picks) = 1
    /\ Len(stored.teams) = 2
    /\ truthyTeam(req.body)
    /\ req.body.draftedByTeam = "B"
    /\ stored.teams[1].name = "A" /\ stored.teams[1].budget = 150
    /\ stored.teams[2].name = "B" /\ stored.teams[2].budget = 165

\* C5: picks are append-only: addPick leaves every previously stored pick
\* in place and unchanged, and getState reports for every pick the
\* pickNumber stored at its insertion and changes nothing.
C5_PicksAreAppendOnly ==
    [][/\ isPut(req') =>
            LET before == loadOrDefault(cache, LeagueId).picks
                after == cache'[LeagueId].picks
            IN  \/ cache' = cache
                \/ /\ Len(after) = Len(before) + 1
                   /\ \A i \in 1..Len(before) : after[i] = before[i]
       /\ (req'.method = "GET" /\ getCachePath(cache, LeagueId)) =>
            /\ cache' = cache
            /\ Len(resp'.picks) = Len(stored.picks)
            /\ \A i \in 1..Len(stored.picks) :
                  /\ resp'.picks[i].pickNumber = stored.picks[i].pickNumber
                  /\ resp'.picks[i].playerName = stored.picks[i].playerName]_vars

C5_Witness ==
    /\ req.method = "GET"
    /\ Len(resp.picks) = 2
    /\ resp.picks[1].pickNumber = 1
    /\ resp.picks[2].pickNumber = 2
    /\ resp.picks[1].bidAmount # resp.picks[2].bidAmount

\* C6: the requests on one session are serializable: when two concurrent
\* requests have both finished, the persisted session is the one that some
\* serial order of the two requests produces.
C6_Serializable ==
    (\A c \in Clients : pc[c] = "done")
    => \/ cache = serial(serial(base, creq[1]), creq[2])
       \/ cache = serial(serial(base, creq[2]), creq[1])

\* C7: addPick with bidAmount < 0 is rejected with a validation error and
\* leaves the draft state unchanged.
C7_NegativeBidIsRejected ==
    [][(/\ isPut(req')
        /\ Has(req'.body, "bidAmount")
        /\ req'.body.bidAmount < 0)
       => (resp'.status = 400 /\ cache' = cache)]_vars

\* C8: after a successful initialize the session holds zero picks and each
\* team's budget is the starting budget configured for it, or 200 when none
\* was configured.
C8_InitializeSetsConfiguredBudgets ==
    (req.method = "POST" /\ resp.status = 200)
    => /\ stored.picks = <<>>
       /\ Len(stored.teams) = Len(req.body.teams)
       /\ \A i \in 1..Len(stored.teams) :
             stored.teams[i].budget =
                IF Has(req.body.teams[i], "budget")
                THEN req.body.teams[i].budget ELSE 200

duplicateNames(teams) ==
    \E i, j \in 1..Len(teams) : i # j /\ teams[i].name = teams[j].name

\* C9: initialize with an empty teams list or with two teams of the same
\* name fails with an invalid-input error and leaves the stored session as
\* it was.
C9_InvalidTeamsAreRejected ==
    [][(/\ req'.method = "POST"
        /\ Has(req'.body, "teams")
        /\ (Len(req'.body.teams) = 0 \/ duplicateNames(req'.body.teams)))
       => (resp'.status = 400 /\ cache' = cache)]_vars

\* C10 as stated: getState of a session that is not stored answers with
\* zero picks, no teams and teamsConfigured = false, and stores nothing.
C10_DefaultHasTeamsConfiguredFalse ==
    [][(req'.method = "GET" /\ ~getCachePath(cache, LeagueId))
       => /\ resp'.status = 200
          /\ resp'.picks = <<>>
          /\ resp'.teams = <<>>
          /\ Has(resp', "teamsConfigured")
          /\ resp'.teamsConfigured = FALSE
          /\ cache' = cache]_vars

\* C10: getState of a session that is not stored does not fail: it answers
\* 200 with zero picks, no teams and no teamsConfigured field at all (which
\* a caller testing !teamsConfigured reads as not configured), and stores
\* nothing.
C10_DefaultOmitsTeamsConfigured ==
    [][(req'.method = "GET" /\ ~getCachePath(cache, LeagueId))
       => /\ resp'.status = 200
          /\ resp'.picks = <<>>
          /\ resp'.teams = <<>>
          /\ ~Has(resp', "teamsConfigured")
          /\ resp'.synced = FALSE
          /\ cache' = cache]_vars

\* getState has answered the default session and no session is stored
C10_Witness ==
    /\ req.method = "GET"
    /\ ~getCachePath(cache, LeagueId)
    /\ resp.status = 200
    /\ resp.picks = <<>>
    /\ resp.synced = FALSE

(***************************************************************************)
(* C11: reset                                                              *)
(***************************************************************************)
\* C11: reset always answers success, whether or not a session was stored,
\* and leaves no session behind; the getState that follows a reset reports
\* the zero-pick default (no picks, no teams, pick 1 next) whatever picks and
\* teams the session held before.
C11_ResetLeavesTheDefault ==
    [][/\ (req'.method = "DELETE")
           => /\ resp'.status = 200
              /\ resp'.success = TRUE
              /\ ~getCachePath(cache', LeagueId)
       /\ (req.method = "DELETE" /\ req'.method = "GET")
           => /\ resp'.status = 200
              /\ resp'.picks = <<>>
              /\ resp'.teams = <<>>
              /\ resp'.currentPick = 1
              /\ resp'.synced = FALSE]_vars

\* a reset has been answered and no session is stored any more
C11_Witness ==
    /\ req.method = "DELETE"
    /\ resp = deleteResponse
    /\ ~getCachePath(cache, LeagueId)

(***************************************************************************)
(* C12, C13: budgets, roster size and completion over a whole draft        *)
(***************************************************************************)
picksOf(data, name) ==
    {i \in 1..Len(data.picks) :
        /\ Has(data.picks[i], "draftedByTeam")
        /\ data.picks[i].draftedByTeam = name}

\* C12: in every reachable state of a stored session each team's budget is at
\* least 0 and no team holds more than 13 picks.
C12_BudgetsAndRostersWithinPolicy ==
    getCachePath(cache, LeagueId)
    => \A i \in 1..Len(stored.teams) :
          /\ stored.teams[i].budget >= 0
          /\ Cardinality(picksOf(stored, stored.teams[i].name)) <= RosterSize

\* C13: the stored session, and what getState reports of it, is complete
\* exactly when it holds at least totalPicks picks.
C13_CompleteIffAllPicksMade ==
    /\ getCachePath(cache, LeagueId)
       => (stored.isComplete <=> Len(stored.picks) >= stored.totalPicks)
    /\ (req.method = "GET" /\ resp.status = 200)
       => (resp.isComplete <=> Len(resp.picks) >= resp.totalPicks)

(***************************************************************************)
(* C14, C15: total picks and rounds follow the number of teams             *)
(***************************************************************************)
\* C14: after an accepted initialize with k > 0 teams the stored totalPicks
\* is k * 13, and getState of a configured session reports that number.
C14_TotalPicksIsTeamsTimesRoster ==
    /\ (req.method = "POST" /\ resp.status = 200 /\ Len(req.body.teams) > 0)
       => stored.totalPicks = Len(req.body.teams) * RosterSize
    /\ (req.method = "GET" /\ resp.status = 200 /\ Len(resp.teams) > 0)
       => resp.totalPicks = Len(resp.teams) * RosterSize

\* C15: every pick getState reports of a configured session has
\* round = floor((pickNumber - 1) / teamCount) + 1, teamCount being the
\* number of configured teams.
C15_RoundFollowsTeamCount ==
    (req.method = "GET" /\ resp.status = 200 /\ Len(resp.teams) > 0)
    => \A i \in 1..Len(resp.picks) :
          resp.picks[i].round
            = ((resp.picks[i].pickNumber - 1) \div Len(resp.teams)) + 1

(***************************************************************************)
(* The merge script: draft-data.json (ESPN) and yahoo-draft-data.json      *)
(* become merged-draft-data.json.                                          *)
(* A name is a sequence of characters, one string per UTF-16 code unit;    *)
(* "U+0107" is the precomposed c with acute, "U+0301" the combining acute. *)
(* Auction values are counted in tenths of a dollar (800 is 80.0).  The    *)
(* values drawn are whole and half dollars, which doubles hold exactly, so *)
(* the integer arithmetic below equals the script's.                       *)
(***************************************************************************)
MaxPrimary == 3
MaxSecondary == 2

UpperCase ==
    <<"A", "B", "C", "D", "E", "F", "G", "H", "I", "J", "K", "L", "M",
      "N", "O", "P", "Q", "R", "S", "T", "U", "V", "W", "X", "Y", "Z">>
LowerCase ==
    <<"a", "b", "c", "d", "e", "f", "g", "h", "i", "j", "k", "l", "m",
      "n", "o", "p", "q", "r", "s", "t", "u", "v", "w", "x", "y", "z">>

lowerOf == [i \in 1..Len(UpperCase) |-> <<UpperCase[i], LowerCase[i]>>]
upperCaseLetters == {UpperCase[i] : i \in 1..Len(UpperCase)}
lowerCaseLetters == {LowerCase[i] : i \in 1..Len(LowerCase)}

toLowerCase(ch) ==
    IF ch \in upperCaseLetters
    THEN (CHOOSE pair \in {lowerOf[i] : i \in 1..Len(lowerOf)} : pair[1] = ch)[2]
    ELSE IF ch = "U+0106" THEN "U+0107" ELSE ch

\* canonical decomposition of one character
decompose(ch) == IF ch = "U+0107" THEN <<"c", "U+0301">> ELSE <<ch>>

RECURSIVE normalizeNFD(_)
normalizeNFD(str) ==
    IF str = <<>> THEN <<>> ELSE decompose(Head(str)) \o normalizeNFD(Tail(str))

\* not in [\u0300-\u036f]
notCombiningMark(ch) == ch \notin {"U+0300", "U+0301", "U+0308"}
isWhitespace(ch) == ch \in {" ", "\t"}
\* not in [^a-z\s]
letterOrWhitespace(ch) == ch \in lowerCaseLetters \/ isWhitespace(ch)

RECURSIVE trimStart(_)
trimStart(str) ==
    IF str # <<>> /\ isWhitespace(Head(str)) THEN trimStart(Tail(str)) ELSE str

RECURSIVE trimEnd(_)
trimEnd(str) ==
    IF str # <<>> /\ isWhitespace(str[Len(str)])
    THEN trimEnd(SubSeq(str, 1, Len(str) - 1))
    ELSE str

trim(str) == trimEnd(trimStart(str))

\* the name trimmed before, not after, the characters are removed
normalizeName_trimFirst(name) ==
    SelectSeq(SelectSeq(normalizeNFD(trim([i \in 1..Len(name) |-> toLowerCase(name[i])])),
                        notCombiningMark),
              letterOrWhitespace)

\* the name never decomposed
normalizeName_noNFD(name) ==
    trim(SelectSeq(SelectSeq([i \in 1..Len(name) |-> toLowerCase(name[i])],
                             notCombiningMark),
                   letterOrWhitespace))

normalizeName(name) ==
    trim(SelectSeq(SelectSeq(normalizeNFD([i \in 1..Len(name) |-> toLowerCase(name[i])]),
                             notCombiningMark),
                   letterOrWhitespace))

\* Map.prototype.set
mapSet(map, key, value) ==
    [k \in DOMAIN map \cup {key} |-> IF k = key THEN value ELSE map[k]]

RECURSIVE yahooMapOf(_)
yahooMapOf(yahoo) ==
    IF yahoo = <<>> THEN <<>>
    ELSE mapSet(yahooMapOf(SubSeq(yahoo, 1, Len(yahoo) - 1)),
                normalizeName(yahoo[Len(yahoo)].name),
                yahoo[Len(yahoo)].yahooAuctionValue)

\* Math.round(avgValue): the average rounded to a whole dollar
roundToTenth_toDollar(sum) == ((sum + 10) \div 20) * 10

\* Math.round(avgValue * 10) / 10 of the average of two values whose sum, in
\* tenths, is the argument
roundToTenth(sum) == (sum + 1) \div 2

mergePlayer(player, yahooMap) ==
    IF normalizeName(player.name) \in DOMAIN yahooMap
    THEN [name |-> player.name,
          position |-> player.position,
          avgAuctionValue |->
              roundToTenth(player.avgAuctionValue
                             + yahooMap[normalizeName(player.name)]),
          espnAuctionValue |-> player.avgAuctionValue,
          yahooAuctionValue |-> yahooMap[normalizeName(player.name)]]
    ELSE [name |-> player.name,
          position |-> player.position,
          avgAuctionValue |-> player.avgAuctionValue,
          espnAuctionValue |-> player.avgAuctionValue,
          yahooAuctionValue |-> Null]

compareFn(a, b) == b.avgAuctionValue - a.avgAuctionValue

\* an insertion that puts the new element before its equals
insertSorted_beforeEquals(sorted, x) ==
    LET after == {j \in 1..Len(sorted) : compareFn(sorted[j], x) >= 0}
        at == IF after = {} THEN Len(sorted) + 1
              ELSE CHOOSE j \in after : \A k \in after : j <= k
    IN SubSeq(sorted, 1, at - 1) \o <<x>> \o SubSeq(sorted, at, Len(sorted))

\* Array.prototype.sort is stable: an element goes behind every element that
\* the comparator does not put after it
insertSorted(sorted, x) ==
    LET after == {j \in 1..Len(sorted) : compareFn(sorted[j], x) > 0}
        at == IF after = {} THEN Len(sorted) + 1
              ELSE CHOOSE j \in after : \A k \in after : j <= k
    IN SubSeq(sorted, 1, at - 1) \o <<x>> \o SubSeq(sorted, at, Len(sorted))

RECURSIVE sort(_)
sort(list) ==
    IF list = <<>> THEN <<>>
    ELSE insertSorted(sort(SubSeq(list, 1, Len(list) - 1)), list[Len(list)])

mergeScript(draft, yahoo) ==
    LET yahooMap == yahooMapOf(yahoo)
    IN sort([i \in 1..Len(draft) |-> mergePlayer(draft[i], yahooMap)])

NameAccent == <<"J", "o", "k", "i", "U+0107">>
NamePlain == <<"J", "o", "k", "i", "c">>
NameDort == <<"L", "u", " ", "D", "o", "r", "t">>
PlayerNameInputs == {NameAccent, NamePlain, NameDort}

\* the ESPN scraper appends page after page without removing repeated players
PrimaryRecords ==
    {[name |-> n, position |-> "C", avgAuctionValue |-> v] :
        n \in PlayerNameInputs, v \in {400, 800}}

SecondaryRecords ==
    {[name |-> n, yahooAuctionValue |-> v] :
        n \in PlayerNameInputs, v \in {600, 805}}

\* the Yahoo scraper keeps one record per name as written
uniqueNames(list) ==
    \A i, j \in 1..Len(list) : list[i].name = list[j].name => i = j

PrimaryLists == SeqsUpTo(PrimaryRecords, MaxPrimary)
SecondaryLists == {l \in SeqsUpTo(SecondaryRecords, MaxSecondary) : uniqueNames(l)}

InitMerge ==
    /\ cache = <<>>
    /\ req = NoRequest
    /\ resp = NoResponse
    /\ pc = [c \in {1, 2} |-> "idle"]
    /\ creq = [c \in {1, 2} |-> NoRequest]
    /\ local = [c \in {1, 2} |-> Null]
    /\ cresp = [c \in {1, 2} |-> NoResponse]
    /\ base = <<>>
    /\ draftData \in PrimaryLists
    /\ yahooData \in SecondaryLists
    /\ mergedData = <<>>
    /\ addPick = "idle"
    /\ recsInFlight = 0
    /\ recommendations = <<>>
    /\ reported = 0
    /\ trackerData = [c \in {1, 2} |-> Null]
    /\ availablePlayers = <<>>
    /\ topAvailable = <<>>
    /\ numTeams = 10
    /\ setupNames = <<>>
    /\ myTeamIndex = 0
    /\ step = "count"
    /\ nameIn = <<>>
    /\ nameKey = <<>>

Merge ==
    /\ mergedData' = mergeScript(draftData, yahooData)
    /\ UNCHANGED <<seqVars, concVars, clientVars, draftData, yahooData>>
    /\ UNCHANGED <<pageVars, wizardVars, nameVars>>

NextMerge == Merge

SpecMerge == InitMerge /\ [][NextMerge]_vars

(***************************************************************************)
(* C18, C19, C20: the reconciled catalog                                   *)
(***************************************************************************)
\* C18: the reconciled catalog holds at most one player per normalized name,
\* whatever the primary and secondary lists are.
C18_OnePlayerPerNormalizedName ==
    \A i, j \in 1..Len(mergedData) :
        normalizeName(mergedData[i].name) = normalizeName(mergedData[j].name)
        => i = j

\* the secondary records that carry the normalized name of a primary record
matchesOf(player, yahoo) ==
    {j \in 1..Len(yahoo) :
        normalizeName(yahoo[j].name) = normalizeName(player.name)}

lastOf(S) == CHOOSE j \in S : \A k \in S : k <= j

\* r is the catalog entry the reconciliation rule gives the primary record
reconciles(r, player, yahoo) ==
    /\ r.name = player.name
    /\ r.position = player.position
    /\ r.espnAuctionValue = player.avgAuctionValue
    /\ LET matches == matchesOf(player, yahoo)
       IN IF matches = {}
          THEN /\ r.yahooAuctionValue = Null
               /\ r.avgAuctionValue = player.avgAuctionValue
          ELSE LET y == yahoo[lastOf(matches)].yahooAuctionValue
                   sum == player.avgAuctionValue + y
               IN /\ r.yahooAuctionValue = y
                  /\ 2 * r.avgAuctionValue - sum \in {-1, 0, 1}

\* C19: the merge writes one entry per primary record.  A primary record
\* whose normalized name a secondary record carries gets the mean of the two
\* values rounded to one decimal (the nearest tenth) and both values recorded,
\* the secondary value being that of the last such secondary record; any other
\* primary record keeps its own value as the average, with a null Yahoo value.
C19_AverageOfMatchedElsePrimary ==
    [][(mergedData' # mergedData)
       => /\ Len(mergedData') = Len(draftData)
          /\ \A i \in 1..Len(draftData) : \E k \in 1..Len(mergedData') :
                reconciles(mergedData'[k], draftData[i], yahooData)
          /\ \A k \in 1..Len(mergedData') : \E i \in 1..Len(draftData) :
                reconciles(mergedData'[k], draftData[i], yahooData)]_vars

\* 80 with a matching 60 has become 70.0 with both values recorded, and an
\* unmatched 40 has stayed 40.0 with a null Yahoo value
C19_Witness ==
    /\ Len(mergedData) = 2
    /\ Len(yahooData) = 1
    /\ mergedData[1].avgAuctionValue = 700
    /\ mergedData[1].espnAuctionValue = 800
    /\ mergedData[1].yahooAuctionValue = 600
    /\ mergedData[2].avgAuctionValue = 400
    /\ mergedData[2].espnAuctionValue = 400
    /\ normalizeName(mergedData[2].name) # normalizeName(yahooData[1].name)
    /\ mergedData[2].yahooAuctionValue = Null

\* the averaged value the catalog gives a primary record
averageIn(merged, player) ==
    merged[CHOOSE k \in 1..Len(merged) :
              /\ merged[k].name = player.name
              /\ merged[k].espnAuctionValue = player.avgAuctionValue].avgAuctionValue

identityOf(list, value) ==
    [i \in 1..Len(list) |-> <<list[i].name, value[i]>>]

\* the entries of the catalog, and the primary records, whose average is v
tiedInCatalog(merged, v) ==
    LET tied(r) == r.avgAuctionValue = v
    IN identityOf(SelectSeq(merged, tied),
                  [i \in 1..Len(SelectSeq(merged, tied)) |->
                      SelectSeq(merged, tied)[i].espnAuctionValue])

tiedInPrimary(draft, merged, v) ==
    LET tied(p) == averageIn(merged, p) = v
    IN identityOf(SelectSeq(draft, tied),
                  [i \in 1..Len(SelectSeq(draft, tied)) |->
                      SelectSeq(draft, tied)[i].avgAuctionValue])

\* C20: the written catalog is in non-increasing order of averageValue, and
\* the entries that share an averageValue stand in the order their primary
\* records have in the primary list.
C20_SortedDescendingStable ==
    [][(mergedData' # mergedData)
       => /\ \A k, l \in 1..Len(mergedData') :
                k < l => mergedData'[k].avgAuctionValue
                           >= mergedData'[l].avgAuctionValue
          /\ \A k \in 1..Len(mergedData') :
                tiedInCatalog(mergedData', mergedData'[k].avgAuctionValue)
                  = tiedInPrimary(draftData, mergedData',
                                  mergedData'[k].avgAuctionValue)]_vars

\* a catalog of three entries: two that tie, from primary records with
\* different names, and one of a higher average that came later in the list
C20_Witness ==
    /\ Len(mergedData) = 3
    /\ Len(draftData) = 3
    /\ mergedData[2].avgAuctionValue = mergedData[3].avgAuctionValue
    /\ mergedData[2].name # mergedData[3].name
    /\ mergedData[1].avgAuctionValue > mergedData[2].avgAuctionValue
    /\ draftData[3].name = mergedData[1].name
    /\ draftData[1].name = mergedData[2].name
    /\ draftData[2].name = mergedData[3].name

(***************************************************************************)
(* The tracker page and the recommendations route.  allPlayers is the      *)
(* merged catalog the page loads (mergedData); one step is one reply to a  *)
(* request the page has in flight.                                         *)
(***************************************************************************)
MaxInFlight == 1
MaxReported == 2

\* what the advice provider answers: an error status, a reply without
\* content, or a content that holds no {...}, a {...} that is not JSON, or a
\* JSON object
AdviceReplies ==
    {[ok |-> FALSE],
     [ok |-> TRUE],
     [ok |-> TRUE, content |-> [kind |-> "text"]],
     [ok |-> TRUE, content |-> [kind |-> "invalid"]],
     [ok |-> TRUE, content |-> [kind |-> "json", parsed |-> [note |-> "none"]]],
     [ok |-> TRUE, content |-> [kind |-> "json", parsed |-> [recommendations |-> <<>>]]],
     [ok |-> TRUE, content |-> [kind |-> "json", parsed |-> [recommendations |-> <<"R1">>]]],
     [ok |-> TRUE, content |-> [kind |-> "json", parsed |-> [recommendations |-> <<"R2">>]]]}

parseFailure == [status |-> 500, error |-> "Failed to parse recommendations"]

parseAdvice(content) ==
    IF content.kind # "json" THEN parseFailure
    ELSE IF ~Has(content.parsed, "recommendations") THEN parseFailure
    ELSE IF Len(content.parsed.recommendations) = 0 THEN parseFailure
    ELSE [status |-> 200, recommendations |-> content.parsed.recommendations]

\* POST /api/recommendations for the body the page sends (draftedPlayers and
\* availablePlayers are always arrays, so the 400 branch is not taken)
recommendationsRoute(apiKey, reply) ==
    IF ~apiKey
    THEN [status |-> 500, error |-> "OpenRouter API key not configured"]
    ELSE IF ~reply.ok
    THEN [status |-> 500, error |-> "OpenRouter API error"]
    ELSE IF ~Has(reply, "content")
    THEN [status |-> 500, error |-> "No content in OpenRouter response"]
    ELSE parseAdvice(reply.content)

ClientPutBodies ==
    {[playerName |-> "P1", bidAmount |-> 35, isMyPick |-> TRUE,
      draftedByTeam |-> "A"]}

AllPlayersChoices ==
    {<<>>,
     mergeScript(<<[name |-> NamePlain, position |-> "C",
                    avgAuctionValue |-> 400]>>, <<>>)}

InitClient ==
    /\ cache = postFiles(<<>>, LeagueId, [teams |-> DraftTeams])
    /\ req = NoRequest
    /\ resp = NoResponse
    /\ pc = [c \in {1, 2} |-> "idle"]
    /\ creq = [c \in {1, 2} |-> NoRequest]
    /\ local = [c \in {1, 2} |-> Null]
    /\ cresp = [c \in {1, 2} |-> NoResponse]
    /\ base = <<>>
    /\ draftData = <<>>
    /\ yahooData = <<>>
    /\ mergedData \in AllPlayersChoices
    /\ addPick = "idle"
    /\ recsInFlight = 0
    /\ recommendations = <<>>
    /\ reported = 0
    /\ trackerData = [c \in {1, 2} |-> Null]
    /\ availablePlayers = <<>>
    /\ topAvailable = <<>>
    /\ numTeams = 10
    /\ setupNames = <<>>
    /\ myTeamIndex = 0
    /\ step = "count"
    /\ nameIn = <<>>
    /\ nameKey = <<>>

\* handleAddPick is called and sends its PUT
ClickAddPick(body) ==
    /\ addPick \in {"idle", "resolved", "rejected"}
    /\ picksStored(cache) < MaxPicks
    /\ addPick' = "awaitPut"
    /\ creq' = [creq EXCEPT ![1] = [method |-> "PUT", body |-> body]]
    /\ UNCHANGED <<seqVars, pc, local, cresp, base, mergeVars>>
    /\ UNCHANGED <<pageVars, wizardVars, nameVars>>
    /\ UNCHANGED <<recsInFlight, recommendations, reported>>

\* the route handles the PUT; handleAddPick throws unless the answer is ok
PutResponds ==
    /\ addPick = "awaitPut"
    /\ req' = creq[1]
    /\ resp' = putResponse(loadOrDefault(cache, LeagueId), creq[1].body)
    /\ cache' = putFiles(cache, LeagueId, loadOrDefault(cache, LeagueId), creq[1].body)
    /\ creq' = [creq EXCEPT ![1] = NoRequest]
    /\ addPick' = IF resp'.status = 200 THEN "awaitRefresh" ELSE "rejected"
    /\ UNCHANGED <<pc, local, cresp, base, mergeVars>>
    /\ UNCHANGED <<pageVars, wizardVars, nameVars>>
    /\ UNCHANGED <<recsInFlight, recommendations, reported>>

\* the PUT does not reach the route, or the route cannot write the cache
PutFails ==
    /\ addPick = "awaitPut"
    /\ req' = creq[1]
    /\ resp' = serverError("Failed to add pick")
    /\ creq' = [creq EXCEPT ![1] = NoRequest]
    /\ addPick' = "rejected"
    /\ UNCHANGED <<cache, pc, local, cresp, base, mergeVars>>
    /\ UNCHANGED <<pageVars, wizardVars, nameVars>>
    /\ UNCHANGED <<recsInFlight, recommendations, reported>>

\* handleAddPick with the recommendations awaited
afterRefresh_awaitRecs(allPlayers) ==
    IF Len(allPlayers) > 0 THEN "awaitRecs" ELSE "resolved"

\* where handleAddPick stands once fetchDraftData has returned: the
\* recommendations are fetched without await
afterRefresh(allPlayers) == "resolved"

\* fetchDraftData returns (it catches its own failures); the background
\* fetch of recommendations starts when players are loaded
RefreshResponds ==
    /\ addPick = "awaitRefresh"
    /\ req' = [method |-> "GET"]
    /\ resp' = getResponse(cache, LeagueId)
    /\ recsInFlight' = IF Len(mergedData) > 0 THEN recsInFlight + 1 ELSE recsInFlight
    /\ addPick' = afterRefresh(mergedData)
    /\ UNCHANGED <<cache, concVars, mergeVars, recommendations, reported>>
    /\ UNCHANGED <<pageVars, wizardVars, nameVars>>

\* handleRefreshRecs; fetchRecommendations returns at once without players
ClickRefreshRecs ==
    /\ Len(mergedData) > 0
    /\ recsInFlight < MaxInFlight
    /\ recsInFlight' = recsInFlight + 1
    /\ UNCHANGED <<seqVars, concVars, mergeVars, addPick, recommendations, reported>>
    /\ UNCHANGED <<pageVars, wizardVars, nameVars>>

\* the recommendations route answers a request of fetchRecommendations
RecResponds(apiKey, reply) ==
    /\ recsInFlight > 0
    /\ req' = [method |-> "POST /api/recommendations", apiKey |-> apiKey,
               advice |-> reply]
    /\ resp' = recommendationsRoute(apiKey, reply)
    /\ IF resp'.status = 200
       THEN /\ recommendations' = resp'.recommendations
            /\ reported' = reported
       ELSE /\ reported < MaxReported
            /\ recommendations' = recommendations
            /\ reported' = reported + 1
    /\ recsInFlight' = recsInFlight - 1
    /\ UNCHANGED <<cache, concVars, mergeVars, addPick>>
    /\ UNCHANGED <<pageVars, wizardVars, nameVars>>

\* a request of fetchRecommendations, or the GET before it, is rejected
RecNetworkError ==
    /\ recsInFlight > 0
    /\ reported < MaxReported
    /\ req' = [method |-> "POST /api/recommendations"]
    /\ resp' = NoResponse
    /\ reported' = reported + 1
    /\ recsInFlight' = recsInFlight - 1
    /\ UNCHANGED <<cache, concVars, mergeVars, addPick, recommendations>>
    /\ UNCHANGED <<pageVars, wizardVars, nameVars>>

NextClient ==
    \/ \E body \in ClientPutBodies : ClickAddPick(body)
    \/ PutResponds
    \/ PutFails
    \/ RefreshResponds
    \/ ClickRefreshRecs
    \/ \E apiKey \in BOOLEAN, reply \in AdviceReplies : RecResponds(apiKey, reply)
    \/ RecNetworkError

SpecClient == InitClient /\ [][NextClient]_vars

\* the draft-sync route answers every request it is sent; nothing is assumed
\* of the recommendations, which may never be answered
SpecClientFair ==
    /\ SpecClient
    /\ WF_vars(PutResponds \/ PutFails)
    /\ WF_vars(RefreshResponds)

(***************************************************************************)
(* C16, C17: recommendations that fail                                     *)
(***************************************************************************)
\* C16: no outcome of a recommendations request (an error answer, an advice
\* that cannot be parsed, a rejected request, no answer at all) touches
\* handleAddPick or the stored picks: the accepted PUT stores the pick, from
\* then on handleAddPick can only resolve, and it does resolve.
C16_AddPickNeverWaitsForRecommendations ==
    /\ [][/\ recsInFlight' < recsInFlight
               => (addPick' = addPick /\ cache' = cache)
          /\ (addPick = "awaitPut" /\ addPick' = "awaitRefresh")
               => (/\ picksStored(cache') = picksStored(cache) + 1
                   /\ cache'[LeagueId].picks[picksStored(cache')].playerName
                        = creq[1].body.playerName)
          /\ addPick = "awaitRefresh"
               => (addPick' \in {"awaitRefresh", "resolved"} /\ cache' = cache)]_vars
    /\ (addPick = "awaitRefresh") ~> (addPick = "resolved")

\* handleAddPick has resolved with its pick stored although a recommendations
\* request has failed and another is still unanswered
C16_Witness ==
    /\ addPick = "resolved"
    /\ picksStored(cache) >= 1
    /\ reported >= 1
    /\ recsInFlight >= 1

\* an advice with no JSON object, or with a missing or empty recommendations
\* array
malformed(reply) ==
    /\ reply.ok
    /\ Has(reply, "content")
    /\ \/ reply.content.kind = "text"
       \/ /\ reply.content.kind = "json"
          /\ \/ ~Has(reply.content.parsed, "recommendations")
             \/ reply.content.parsed.recommendations = <<>>

\* C17: when the advice is not in the expected shape the route reports the
\* failure, the page's recommendations are empty afterwards, and the stored
\* draft (picks, budgets) is unchanged.
C17_MalformedAdviceLeavesNoRecommendations ==
    [][(/\ recsInFlight' < recsInFlight
        /\ Has(req', "advice")
        /\ req'.apiKey
        /\ malformed(req'.advice))
       => /\ resp'.status = 500
          /\ reported' = reported + 1
          /\ recommendations' = <<>>
          /\ cache' = cache]_vars

(***************************************************************************)
(* normalizeName on its own: names of up to MaxNameLen characters          *)
(***************************************************************************)
MaxNameLen == 3

NameCharacters == {"J", "c", "U+0106", "U+0107", "U+0301", " ", "\t", "."}

NameInputs == SeqsUpTo(NameCharacters, MaxNameLen)

InitNormalize ==
    /\ cache = <<>>
    /\ req = NoRequest
    /\ resp = NoResponse
    /\ pc = [c \in {1, 2} |-> "idle"]
    /\ creq = [c \in {1, 2} |-> NoRequest]
    /\ local = [c \in {1, 2} |-> Null]
    /\ cresp = [c \in {1, 2} |-> NoResponse]
    /\ base = <<>>
    /\ draftData = <<>>
    /\ yahooData = <<>>
    /\ mergedData = <<>>
    /\ addPick = "idle"
    /\ recsInFlight = 0
    /\ recommendations = <<>>
    /\ reported = 0
    /\ trackerData = [c \in {1, 2} |-> Null]
    /\ availablePlayers = <<>>
    /\ topAvailable = <<>>
    /\ numTeams = 10
    /\ setupNames = <<>>
    /\ myTeamIndex = 0
    /\ step = "count"
    /\ nameIn \in NameInputs
    /\ nameKey = Null

\* the name goes through normalizeName, and the result through it again
Normalize ==
    /\ nameKey' = [once |-> normalizeName(nameIn),
                   twice |-> normalizeName(normalizeName(nameIn))]
    /\ UNCHANGED <<seqVars, concVars, mergeVars, clientVars, pageVars, wizardVars, nameIn>>

NextNormalize == Normalize

SpecNormalize == InitNormalize /\ [][NextNormalize]_vars

(***************************************************************************)
(* C23, C24: the normalized name                                           *)
(***************************************************************************)
normalized == Has(nameKey, "once")

\* C23: normalizing a normalized name changes nothing:
\* normalize(normalize(s)) = normalize(s) for every name s.
C23_NormalizeIsIdempotent ==
    normalized => nameKey.twice = nameKey.once

\* a name that loses characters and its surrounding whitespace has been
\* normalized once and twice
C23_Witness ==
    /\ normalized
    /\ nameIn = <<" ", ".", "J">>
    /\ nameKey.once = <<"j">>
    /\ nameKey.twice = <<"j">>

\* the same name written with the unaccented base letters
unaccentedChar(ch) ==
    IF ch = "U+0107" THEN "c" ELSE IF ch = "U+0106" THEN "C" ELSE ch

unaccented(name) ==
    SelectSeq([i \in 1..Len(name) |-> unaccentedChar(name[i])], notCombiningMark)

MaxCatalog == 2
MaxPickNames == 2
MaxAvailable == 31
PoolSize == 30

lowerCased(str) == [i \in 1..Len(str) |-> toLowerCase(str[i])]

\* String.prototype.includes: search is found at some position of str
includes(str, search) ==
    \E at \in 0..(Len(str) - Len(search)) :
        \A i \in 1..Len(search) : str[at + i] = search[i]

\* only the pick's name is searched for the player's name
isDrafted_oneWay(player, picks) ==
    \E i \in 1..Len(picks) :
        includes(lowerCased(picks[i].playerName), lowerCased(player.name))

\* draftData.picks.some(...)
isDrafted(player, picks) ==
    \E i \in 1..Len(picks) :
        \/ includes(lowerCased(picks[i].playerName), lowerCased(player.name))
        \/ includes(lowerCased(player.name), lowerCased(picks[i].playerName))

\* Array.prototype.filter with the test !isDrafted
RECURSIVE availableOf(_, _)
availableOf(allPlayers, picks) ==
    IF allPlayers = <<>> THEN <<>>
    ELSE IF isDrafted(Head(allPlayers), picks)
         THEN availableOf(Tail(allPlayers), picks)
         ELSE <<Head(allPlayers)>> \o availableOf(Tail(allPlayers), picks)

\* p.avgAuctionValue || 0
valueOrZero(player) ==
    IF Has(player, "avgAuctionValue") THEN player.avgAuctionValue ELSE 0

compareByValue(a, b) == valueOrZero(b) - valueOrZero(a)

insertByValue(sorted, x) ==
    LET after == {j \in 1..Len(sorted) : compareByValue(sorted[j], x) > 0}
        at == IF after = {} THEN Len(sorted) + 1
              ELSE CHOOSE j \in after : \A k \in after : j <= k
    IN SubSeq(sorted, 1, at - 1) \o <<x>> \o SubSeq(sorted, at, Len(sorted))

RECURSIVE sortByValue(_)
sortByValue(list) ==
    IF list = <<>> THEN <<>>
    ELSE insertByValue(sortByValue(SubSeq(list, 1, Len(list) - 1)), list[Len(list)])

\* slice(0, n)
slice(list, n) == SubSeq(list, 1, IF Len(list) < n THEN Len(list) ELSE n)

poolEntry(p) ==
    [name |-> p.name, team |-> p.team, position |-> p.position,
     avgValue |-> p.avgAuctionValue,
     yahooValue |-> p.yahooAuctionValue]

\* the first 30 players taken before the sort
topAvailableOf_sliceFirst(available) ==
    LET top == sortByValue(slice(available, PoolSize))
    IN [i \in 1..Len(top) |-> poolEntry(top[i])]

topAvailableOf(available) ==
    LET top == slice(sortByValue(available), PoolSize)
    IN [i \in 1..Len(top) |-> poolEntry(top[i])]

NameLeBronJames == <<"L", "e", "B", "r", "o", "n", " ", "J", "a", "m", "e", "s">>
NameLeBron == <<"L", "e", "B", "r", "o", "n">>
NameLeBronSpaced == <<" ", "L", "e", "B", "r", "o", "n">>

catalogPlayer(name, value) ==
    [name |-> name, team |-> "LAL", position |-> "C", avgAuctionValue |-> value,
     espnAuctionValue |-> value, yahooAuctionValue |-> Null]

SmallCatalogs ==
    SeqsUpTo({catalogPlayer(NameLeBronJames, 800), catalogPlayer(NamePlain, 400),
              catalogPlayer(NameDort, 400)}, MaxCatalog)

Digits == <<"0", "1", "2", "3", "4", "5", "6", "7", "8", "9">>

\* "x00", "x01", ...: names no pick name is part of
numberedName(i) == <<"x", Digits[(i \div 10) + 1], Digits[(i % 10) + 1]>>

\* catalogs large enough to fill the pool: values rising, falling, equal and
\* mixed along the catalog
LargeCatalogs ==
    {[i \in 1..n |-> catalogPlayer(numberedName(i),
                       IF shape = "rising" THEN 10 * i
                       ELSE IF shape = "falling" THEN 10 * (100 - i)
                       ELSE IF shape = "equal" THEN 400
                       ELSE 100 * ((7 * i) % 5))] :
        n \in (PoolSize - 1)..MaxAvailable,
        shape \in {"rising", "falling", "equal", "mixed"}}

PickNameLists == SeqsUpTo({NameLeBron, NameLeBronSpaced, NamePlain}, MaxPickNames)

\* the stored session after the form's picks of these players
RECURSIVE sessionWith(_)
sessionWith(names) ==
    IF names = <<>> THEN initialCacheData(DraftTeams)
    ELSE dataAfterPick(sessionWith(SubSeq(names, 1, Len(names) - 1)),
                       [playerName |-> names[Len(names)], bidAmount |-> 35,
                        isMyPick |-> FALSE, draftedByTeam |-> "B"])

InitPool ==
    /\ \E names \in PickNameLists :
          /\ cache = saveToCache(<<>>, LeagueId, sessionWith(names))
          /\ trackerData = [c \in {1, 2} |->
                              IF c = 1 THEN getResponseFor(sessionWith(names))
                              ELSE Null]
    /\ req = NoRequest
    /\ resp = NoResponse
    /\ pc = [c \in {1, 2} |-> "idle"]
    /\ creq = [c \in {1, 2} |-> NoRequest]
    /\ local = [c \in {1, 2} |-> Null]
    /\ cresp = [c \in {1, 2} |-> NoResponse]
    /\ base = <<>>
    /\ draftData = <<>>
    /\ yahooData = <<>>
    /\ mergedData \in SmallCatalogs \cup LargeCatalogs
    /\ addPick = "idle"
    /\ recsInFlight = 0
    /\ recommendations = <<>>
    /\ reported = 0
    /\ availablePlayers = Null
    /\ topAvailable = Null
    /\ numTeams = 10
    /\ setupNames = <<>>
    /\ myTeamIndex = 0
    /\ step = "count"
    /\ nameIn = <<>>
    /\ nameKey = <<>>

\* the page renders: availablePlayers is computed from allPlayers and the
\* picks of draftData
Render ==
    /\ availablePlayers' = [players |-> availableOf(mergedData, trackerData[1].picks)]
    /\ UNCHANGED <<seqVars, concVars, mergeVars, clientVars, wizardVars, nameVars>>
    /\ UNCHANGED <<trackerData, topAvailable>>

\* fetchRecommendations computes the available players and posts them; the
\* route builds topAvailable from them
FetchRecommendations ==
    /\ Len(mergedData) > 0
    /\ topAvailable' =
          [players |-> topAvailableOf(availableOf(mergedData, trackerData[1].picks))]
    /\ UNCHANGED <<seqVars, concVars, mergeVars, clientVars, wizardVars, nameVars>>
    /\ UNCHANGED <<trackerData, availablePlayers>>

NextPool == Render \/ FetchRecommendations

SpecPool == InitPool /\ [][NextPool]_vars

rendered == availablePlayers # Null

\* a.contains(b): b is a stretch of a
contains(a, b) ==
    \/ b = <<>>
    \/ \E i \in 1..Len(a) : \E j \in i..Len(a) : SubSeq(a, i, j) = b

matchesEitherWay(a, b) == contains(a, b) \/ contains(b, a)

pickNamesShown == [i \in 1..Len(trackerData[1].picks) |-> trackerData[1].picks[i].playerName]

keptLowercasedAndTrimmed(player) ==
    ~\E i \in 1..Len(pickNamesShown) :
        matchesEitherWay(trim(lowerCased(pickNamesShown[i])), trim(lowerCased(player.name)))

keptLowercased(player) ==
    ~\E i \in 1..Len(pickNamesShown) :
        matchesEitherWay(lowerCased(pickNamesShown[i]), lowerCased(player.name))

\* C21 as stated: the players offered are the catalog players for which no
\* pick's playerName and the player's name, both lowercased and trimmed,
\* contain one another; the others are kept in catalog order.
C21_ExcludedWhenLowercasedTrimmedNamesContain ==
    rendered => availablePlayers.players = SelectSeq(mergedData, keptLowercasedAndTrimmed)

\* C21 amended: the players offered are the catalog players for which no
\* pick's playerName and the player's name, both lowercased (and not
\* trimmed), contain one another; the others are kept in catalog order.
C21_ExcludedWhenLowercasedNamesContain ==
    rendered => availablePlayers.players = SelectSeq(mergedData, keptLowercased)

\* catalog player 'LeBron James' is excluded by the pick 'LeBron' and the
\* other catalog player is kept
C21_Witness ==
    /\ rendered
    /\ mergedData = <<catalogPlayer(NameLeBronJames, 800), catalogPlayer(NameDort, 400)>>
    /\ pickNamesShown = <<NameLeBron>>
    /\ availablePlayers.players = <<catalogPlayer(NameDort, 400)>>

poolBuilt == topAvailable # Null

availableShown == SelectSeq(mergedData, keptLowercased)

min(a, b) == IF a < b THEN a ELSE b

leftOutOf(available, pool) ==
    {i \in 1..Len(available) :
        \A k \in 1..Len(pool) : pool[k].name # available[i].name}

leftOut == leftOutOf(availableShown, topAvailable.players)

\* C22: the candidate pool holds min(30, number of available players)
\* players, is sorted by average value descending, and no player left out
\* of the pool has a higher average value than a player in it.
C22_PoolIsTheThirtyMostValuable ==
    poolBuilt =>
        LET pool == topAvailable.players
            available == availableShown
            out == leftOutOf(available, pool)
        IN /\ Len(pool) = min(30, Len(available))
           /\ \A k \in 1..Len(pool) :
                 \E i \in 1..Len(available) :
                     /\ available[i].name = pool[k].name
                     /\ available[i].avgAuctionValue = pool[k].avgValue
           /\ \A k \in 1..(Len(pool) - 1) : pool[k].avgValue >= pool[k + 1].avgValue
           /\ \A k \in 1..Len(pool) :
                 \A i \in out : pool[k].avgValue >= available[i].avgAuctionValue

\* 31 available players whose values rise along the catalog: the pool holds
\* 30 of them, the most valuable first, and leaves out the least valuable
C22_Witness ==
    /\ poolBuilt
    /\ Len(availableShown) = 31
    /\ Len(topAvailable.players) = 30
    /\ availableShown[1].avgAuctionValue < availableShown[31].avgAuctionValue
    /\ topAvailable.players[1].name = availableShown[31].name
    /\ leftOut = {1}

(***************************************************************************)
(* AddPickForm on the draft page: submissions of one page and of two open  *)
(* pages of the same league                                                *)
(***************************************************************************)
MaxFormPicks == 3
FormCatalogSize == 3

Pages == {1, 2}
FormSalaries == {-5, 35, 200}
FormCatalog == [i \in 1..FormCatalogSize |-> catalogPlayer(numberedName(i), 100 * i)]

\* teams.find(t => t.isMyTeam)?.name || 'My Team'
myTeamNameOf(teams) ==
    LET mine == {i \in 1..Len(teams) :
                    Has(teams[i], "isMyTeam") /\ teams[i].isMyTeam = TRUE}
    IN IF mine = {} THEN "My Team"
       ELSE teams[CHOOSE i \in mine : \A j \in mine : i <= j].name

\* remainingBudget={draftData.myTeamBudget || 200}
remainingBudgetOf(data) ==
    IF Has(data, "myTeamBudget") /\ data.myTeamBudget # 0
    THEN data.myTeamBudget ELSE 200

\* the alert handleSubmit raises for this entry, or "none"
formAlert(data, salaryValue, draftedByTeam) ==
    IF salaryValue < 0 THEN "Please enter a valid salary amount"
    ELSE IF /\ draftedByTeam = myTeamNameOf(data.teams)
            /\ salaryValue > remainingBudgetOf(data)
         THEN "Not enough budget!"
         ELSE "none"

formBody(data, player, salaryValue, draftedByTeam) ==
    [playerName |-> player.name, bidAmount |-> salaryValue,
     isMyPick |-> (draftedByTeam = myTeamNameOf(data.teams)),
     draftedByTeam |-> draftedByTeam]

InitForm ==
    /\ cache = postFiles(<<>>, LeagueId, [teams |-> DraftTeams])
    /\ trackerData = [c \in Pages |->
                        IF c = 1 THEN getResponse(cache, LeagueId) ELSE Null]
    /\ req = NoRequest
    /\ resp = NoResponse
    /\ pc = [c \in {1, 2} |-> "idle"]
    /\ creq = [c \in {1, 2} |-> NoRequest]
    /\ local = [c \in {1, 2} |-> Null]
    /\ cresp = [c \in {1, 2} |-> NoResponse]
    /\ base = <<>>
    /\ draftData = <<>>
    /\ yahooData = <<>>
    /\ mergedData = FormCatalog
    /\ addPick = "idle"
    /\ recsInFlight = 0
    /\ recommendations = <<>>
    /\ reported = 0
    /\ availablePlayers = <<>>
    /\ topAvailable = <<>>
    /\ numTeams = 10
    /\ setupNames = <<>>
    /\ myTeamIndex = 0
    /\ step = "count"
    /\ nameIn = <<>>
    /\ nameKey = <<>>

\* the same league open in two pages
InitForms ==
    /\ cache = postFiles(<<>>, LeagueId, [teams |-> DraftTeams])
    /\ trackerData = [c \in Pages |-> getResponse(cache, LeagueId)]
    /\ req = NoRequest
    /\ resp = NoResponse
    /\ pc = [c \in {1, 2} |-> "idle"]
    /\ creq = [c \in {1, 2} |-> NoRequest]
    /\ local = [c \in {1, 2} |-> Null]
    /\ cresp = [c \in {1, 2} |-> NoResponse]
    /\ base = <<>>
    /\ draftData = <<>>
    /\ yahooData = <<>>
    /\ mergedData = FormCatalog
    /\ addPick = "idle"
    /\ recsInFlight = 0
    /\ recommendations = <<>>
    /\ reported = 0
    /\ availablePlayers = <<>>
    /\ topAvailable = <<>>
    /\ numTeams = 10
    /\ setupNames = <<>>
    /\ myTeamIndex = 0
    /\ step = "count"
    /\ nameIn = <<>>
    /\ nameKey = <<>>

\* handleSubmit of the form on page c: a player selected from the page's
\* available players, a salary and a team of the select; on success
\* handleAddPick sends the PUT and refreshes the page's draft data
Submit(c, i, salaryValue, t) ==
    /\ trackerData[c] # Null
    /\ picksStored(cache) < MaxFormPicks
    /\ i \in 1..Len(availableOf(mergedData, trackerData[c].picks))
    /\ t \in 1..Len(trackerData[c].teams)
    /\ LET data == trackerData[c]
           player == availableOf(mergedData, data.picks)[i]
           draftedByTeam == data.teams[t].name
           body == formBody(data, player, salaryValue, draftedByTeam)
           alert == formAlert(data, salaryValue, draftedByTeam)
       IN IF alert # "none"
          THEN /\ resp' = [alert |-> alert]
               /\ req' = NoRequest
               /\ UNCHANGED <<cache, trackerData>>
          ELSE /\ req' = [method |-> "PUT", body |-> body]
               /\ resp' = putResponse(loadOrDefault(cache, LeagueId), body)
               /\ cache' = putFiles(cache, LeagueId, loadOrDefault(cache, LeagueId), body)
               /\ trackerData' = [trackerData EXCEPT ![c] = getResponse(cache', LeagueId)]
    /\ UNCHANGED <<concVars, mergeVars, clientVars, wizardVars, nameVars>>
    /\ UNCHANGED <<availablePlayers, topAvailable>>

\* the page is reloaded: fetchDraftData
Reload(c) ==
    /\ trackerData[c] # Null
    /\ trackerData' = [trackerData EXCEPT ![c] = getResponse(cache, LeagueId)]
    /\ req' = [method |-> "GET"]
    /\ resp' = getResponse(cache, LeagueId)
    /\ UNCHANGED <<concVars, mergeVars, clientVars, wizardVars, nameVars>>
    /\ UNCHANGED <<cache, availablePlayers, topAvailable>>

NextForm ==
    \E c \in Pages :
        \/ \E i \in 1..FormCatalogSize, salaryValue \in FormSalaries, t \in 1..MaxTeams :
              Submit(c, i, salaryValue, t)
        \/ Reload(c)

SpecForm == InitForm /\ [][NextForm]_vars

SpecForms == InitForms /\ [][NextForm]_vars

\* C25: a pick for the user's own team whose bid exceeds the remaining
\* budget is rejected by the form, and over any sequence of form picks
\* of one page, refreshed after each pick, myTeamBudget is never negative.
C25_MyTeamBudgetNeverNegative ==
    /\ stored.myTeamBudget >= 0
    /\ trackerData[1].myTeamBudget >= 0

\* C30: no stored session holds two picks with the same playerName after
\* AddPickForm submissions.
C30_NoPlayerRecordedTwice ==
    \A i, j \in 1..Len(stored.picks) :
        stored.picks[i].playerName = stored.picks[j].playerName => i = j

(***************************************************************************)
(* The scrape route, the live scraper and the bookmarklet post their       *)
(* picks to the draft-sync endpoint                                        *)
(***************************************************************************)
MaxScraped == 1

ScrapedPicks == {[playerName |-> "P1", teamName |-> "Unknown", pickNumber |-> 1]}
ScrapedPickLists == SeqsUpTo(ScrapedPicks, MaxScraped)

\* body: JSON.stringify({picks, teams: [], totalPicks: 130, isComplete: false, syncedAt})
syncBody(picks) ==
    [picks |-> picks, teams |-> <<>>, totalPicks |-> 130, isComplete |-> FALSE,
     syncedAt |-> "now"]

\* the scraper's fetch with method POST, handled by the POST handler
Sync(picks) ==
    /\ req' = [method |-> "POST", body |-> syncBody(picks)]
    /\ resp' = postResponse(syncBody(picks))
    /\ cache' = postFiles(cache, LeagueId, syncBody(picks))
    /\ UNCHANGED <<concVars, mergeVars, clientVars>>
    /\ UNCHANGED <<pageVars, wizardVars, nameVars>>

NextSync ==
    \/ \E body \in PostBodies : POST(body)
    \/ \E body \in PutBodies : PUT(body)
    \/ \E picks \in ScrapedPickLists : Sync(picks)
    \/ GET

SpecSync == Init /\ [][NextSync]_vars

storedPickNames(files) ==
    {getResponse(files, LeagueId).picks[i].playerName :
        i \in 1..Len(getResponse(files, LeagueId).picks)}

\* C26: after a scraper has posted its picks to the draft-sync endpoint, a
\* following getState returns those picks and as many picks as were
\* recorded before are still there.
C26_SyncedPicksAreShownAndNoneLost ==
    [][(/\ req'.method = "POST"
        /\ Has(req'.body, "picks"))
          => /\ \A i \in 1..Len(req'.body.picks) :
                  req'.body.picks[i].playerName \in storedPickNames(cache')
             /\ Len(getResponse(cache', LeagueId).picks)
                  >= Len(getResponse(cache, LeagueId).picks)]_vars

(***************************************************************************)
(* The budgets the page shows: TeamBudgets and MyTeam                      *)
(***************************************************************************)
\* picks.filter(p => p.draftedByTeam === team.name)
\*      .reduce((sum, p) => sum + (p.bidAmount || 0), 0)
RECURSIVE totalSpent(_, _)
totalSpent(picks, name) ==
    IF picks = <<>> THEN 0
    ELSE totalSpent(SubSeq(picks, 1, Len(picks) - 1), name)
         + (IF /\ Has(picks[Len(picks)], "draftedByTeam")
               /\ picks[Len(picks)].draftedByTeam = name
            THEN picks[Len(picks)].bidAmount ELSE 0)

initialized(files) == getCachePath(files, LeagueId)

\* C27: budget conservation: for every configured team, its budget plus
\* the sum of bidAmount over the stored picks drafted by it is left
\* unchanged by every addPick on an initialized session.
C27_BudgetPlusSpentIsConstant ==
    [][(/\ initialized(cache)
        /\ req'.method = "PUT")
          => \A i \in 1..Len(cache[LeagueId].teams) :
                cache'[LeagueId].teams[i].budget
                    + totalSpent(cache'[LeagueId].picks, cache[LeagueId].teams[i].name)
                = cache[LeagueId].teams[i].budget
                    + totalSpent(cache[LeagueId].picks, cache[LeagueId].teams[i].name)]_vars

\* picks.filter(pick => pick.isMyPick)
\*      .reduce((sum, pick) => sum + (pick.bidAmount || 0), 0)
RECURSIVE myTotalSpent(_)
myTotalSpent(picks) ==
    IF picks = <<>> THEN 0
    ELSE myTotalSpent(SubSeq(picks, 1, Len(picks) - 1))
         + (IF picks[Len(picks)].isMyPick = TRUE
            THEN picks[Len(picks)].bidAmount ELSE 0)

teamsConfigured == initialized(cache) /\ Len(stored.teams) > 0

\* C28: in every state of an initialized session, myTeamBudget equals the
\* stored budget of the team flagged isMyTeam and equals 200 minus the sum
\* of bidAmount over the stored picks with isMyPick = true.
C28_MyTeamBudgetMatchesTeamAndPicks ==
    teamsConfigured =>
        /\ \A i \in 1..Len(stored.teams) :
              stored.teams[i].isMyTeam = TRUE
                  => stored.myTeamBudget = stored.teams[i].budget
        /\ stored.myTeamBudget = 200 - myTotalSpent(stored.picks)

(***************************************************************************)
(* TeamSetup: the wizard that configures the teams of a draft              *)
(***************************************************************************)
MaxEdited == 1

TeamCounts == {8, 10, 12, 14, 16}
WizardNameInputs == {<<>>, <<" ">>, <<"A">>}

decimal(i) ==
    IF i < 10 THEN <<Digits[i + 1]>>
    ELSE <<Digits[(i \div 10) + 1], Digits[(i % 10) + 1]>>

\* `Team ${i + 1}` for the 0-based index i
defaultTeamName(i) == <<"T", "e", "a", "m", " ">> \o decimal(i + 1)

\* useState initial values
InitWizard ==
    /\ numTeams = 10
    /\ setupNames = [i \in 1..10 |-> defaultTeamName(i - 1)]
    /\ myTeamIndex = 0
    /\ step = "count"
    /\ cache = <<>>
    /\ req = NoRequest
    /\ resp = NoResponse
    /\ pc = [c \in {1, 2} |-> "idle"]
    /\ creq = [c \in {1, 2} |-> NoRequest]
    /\ local = [c \in {1, 2} |-> Null]
    /\ cresp = [c \in {1, 2} |-> NoResponse]
    /\ base = <<>>
    /\ draftData = <<>>
    /\ yahooData = <<>>
    /\ mergedData = <<>>
    /\ addPick = "idle"
    /\ recsInFlight = 0
    /\ recommendations = <<>>
    /\ reported = 0
    /\ trackerData = [c \in {1, 2} |-> Null]
    /\ availablePlayers = <<>>
    /\ topAvailable = <<>>
    /\ nameIn = <<>>
    /\ nameKey = <<>>

wizardRest == <<seqVars, concVars, mergeVars, clientVars, pageVars, nameVars>>

handleNumTeamsChange(num) ==
    /\ step = "count"
    /\ numTeams' = num
    /\ setupNames' = [i \in 1..num |->
                        IF i - 1 < Len(setupNames) THEN setupNames[i]
                        ELSE defaultTeamName(i - 1)]
    /\ UNCHANGED <<myTeamIndex, step, wizardRest>>

handleTeamNameChange(index, name) ==
    /\ step = "names"
    /\ index < Len(setupNames)
    /\ setupNames' = [setupNames EXCEPT ![index + 1] = name]
    /\ UNCHANGED <<numTeams, myTeamIndex, step, wizardRest>>

setMyTeamIndex(index) ==
    /\ step = "select"
    /\ index < Len(setupNames)
    /\ myTeamIndex' = index
    /\ UNCHANGED <<numTeams, setupNames, step, wizardRest>>

\* the Next and Back buttons
setStep(to) ==
    /\ \/ step = "count" /\ to = "names"
       \/ step = "names" /\ to \in {"count", "select"}
       \/ step = "select" /\ to = "names"
    /\ step' = to
    /\ UNCHANGED <<numTeams, setupNames, myTeamIndex, wizardRest>>

\* the list handleComplete builds
completedTeams(names, mine) ==
    [i \in 1..Len(names) |->
        [name |-> IF trim(names[i]) = <<>> THEN defaultTeamName(i - 1)
                  ELSE trim(names[i]),
         budget |-> 200,
         isMyTeam |-> (i - 1 = mine)]]

\* Start Draft: handleComplete hands the teams to onComplete
\* (handleTeamSetup), which posts them to the store
handleComplete ==
    /\ step = "select"
    /\ step' = "done"
    /\ req' = [method |-> "POST",
               body |-> [teams |-> completedTeams(setupNames, myTeamIndex)]]
    /\ resp' = postResponse([teams |-> completedTeams(setupNames, myTeamIndex)])
    /\ cache' = postFiles(cache, LeagueId,
                          [teams |-> completedTeams(setupNames, myTeamIndex)])
    /\ UNCHANGED <<numTeams, setupNames, myTeamIndex>>
    /\ UNCHANGED <<concVars, mergeVars, clientVars, pageVars, nameVars>>

NextWizard ==
    \/ \E num \in TeamCounts : handleNumTeamsChange(num)
    \/ \E index \in 0..(MaxEdited - 1), name \in WizardNameInputs :
          handleTeamNameChange(index, name)
    \/ \E index \in 0..15 : setMyTeamIndex(index)
    \/ \E to \in {"count", "names", "select"} : setStep(to)
    \/ handleComplete

SpecWizard == InitWizard /\ [][NextWizard]_vars

\* C29: the team list handed to onComplete has as many teams as the chosen
\* count and exactly one of them has isMyTeam = true.
C29_OneTeamIsMineAmongTheChosenCount ==
    step = "done" =>
        /\ Len(req.body.teams) = numTeams
        /\ Cardinality({i \in 1..Len(req.body.teams) :
                            req.body.teams[i].isMyTeam = TRUE}) = 1

====
